---- MODULE Spec2Model ----
(***************************************************************************)
(* A model of the ContextIQ ingestion pipeline (backend/ingest.py):        *)
(* character-window chunking, the [PAGE n] page resolver and the batch     *)
(* entry point extract_documents.                                          *)
(*                                                                         *)
(* A Python str is a sequence of one-character strings; Python's 0-based,  *)
(* end-exclusive indices are kept, so s[i] of Python is s[i + 1] here.     *)
(* An Optional[int] is <<>> (None) or <<n>>.                               *)
(***************************************************************************)
EXTENDS Integers, Sequences, FiniteSets, TLC

\* ------------------------------------------------------------------ bounds
\* Longest text handed to chunk_text when its parameters are free.
MaxLen == 4
\* Largest chunk_chars, overlap and max_chunks tried on those texts.
MaxChunkChars == 3
MaxOverlap == 3
MaxMaxChunks == 3
\* Most pieces a text handed to the page resolver is put together from.
MaxPieces == 3
\* Most files in one call of extract_documents.
MaxFiles == 2

\* ------------------------------------------------------ program constants
\* chunk_text's defaults, and the arguments extract_documents passes.
CHUNK_CHARS == 1500
OVERLAP == 200
MAX_CHUNKS == 500

\* --------------------------------------------------------- Python strings
CR == "\r"
LF == "\n"
SP == " "
TAB == "\t"

None == <<>>
Some(n) == <<n>>

Min(a, b) == IF a <= b THEN a ELSE b
Max(a, b) == IF a >= b THEN a ELSE b

\* str.isspace for one character (the whitespace str.strip removes).
IsSpace(c) == c \in {SP, LF, CR, TAB}

Digits == <<"0", "1", "2", "3", "4", "5", "6", "7", "8", "9">>
IsDigit(c) == \E d \in 1..10 : Digits[d] = c
DigitVal(c) == (CHOOSE d \in 1..10 : Digits[d] = c) - 1

\* A slice bound as Python normalises it: negative counts from the end,
\* and the result is clamped to 0..len.
SliceIndex(i, len) == IF i < 0 THEN Max(len + i, 0) ELSE Min(i, len)

\* s[a:b]
Slice(s, a, b) ==
  LET lo == SliceIndex(a, Len(s))
      hi == SliceIndex(b, Len(s))
  IN  IF lo >= hi THEN <<>> ELSE [k \in 1..(hi - lo) |-> s[lo + k]]

\* s.strip()
Strip(s) ==
  IF \A k \in 1..Len(s) : IsSpace(s[k]) THEN <<>>
  ELSE LET first == CHOOSE k \in 1..Len(s) :
                      ~IsSpace(s[k]) /\ \A j \in 1..(k - 1) : IsSpace(s[j])
           last == CHOOSE k \in 1..Len(s) :
                     ~IsSpace(s[k]) /\ \A j \in (k + 1)..Len(s) : IsSpace(s[j])
       IN  [k \in 1..(last - first + 1) |-> s[first + k - 1]]

\* s.replace("\r", "")
RemoveCR(s) == SelectSeq(s, LAMBDA c : c # CR)

\* sub occurs in s at 0-based position p
OccursAt(s, sub, p) ==
  /\ p >= 0
  /\ p + Len(sub) <= Len(s)
  /\ \A k \in 1..Len(sub) : s[p + k] = sub[k]

\* The search run from the front: the lowest position instead of the highest.
FindFirstIn(s, sub, lo, hi) ==
  LET a == SliceIndex(lo, Len(s))
      b == SliceIndex(hi, Len(s))
      hits == {p \in a..(b - Len(sub)) : OccursAt(s, sub, p)}
  IN  IF hits = {} THEN -1
      ELSE CHOOSE p \in hits : \A q \in hits : p <= q

\* s.rfind(sub, lo, hi): the highest position of an occurrence of sub that
\* lies wholly inside s[lo:hi], or -1.
RFind(s, sub, lo, hi) ==
  LET a == SliceIndex(lo, Len(s))
      b == SliceIndex(hi, Len(s))
      hits == {p \in a..(b - Len(sub)) : OccursAt(s, sub, p)}
  IN  IF hits = {} THEN -1
      ELSE CHOOSE p \in hits : \A q \in hits : q <= p

\* s.find(sub, lo): the lowest position >= lo of an occurrence of sub, or -1.
Find(s, sub, lo) ==
  LET a == SliceIndex(lo, Len(s))
      hits == {p \in a..(Len(s) - Len(sub)) : OccursAt(s, sub, p)}
  IN  IF hits = {} THEN -1
      ELSE CHOOSE p \in hits : \A q \in hits : p <= q

\* The value of a digit string, most significant digit first.
RECURSIVE DigitsValue(_)
DigitsValue(s) ==
  IF s = <<>> THEN 0
  ELSE 10 * DigitsValue(SubSeq(s, 1, Len(s) - 1)) + DigitVal(s[Len(s)])

\* int(s) for a str: surrounding whitespace is ignored, then an optional
\* sign and decimal digits, which single underscores may separate.
\* [ok |-> FALSE] stands for the ValueError int raises on anything else.
ParseInt(s) ==
  LET t == Strip(s)
      signed == t # <<>> /\ t[1] \in {"+", "-"}
      body == IF signed THEN SubSeq(t, 2, Len(t)) ELSE t
      wellFormed ==
        /\ body # <<>>
        /\ \A k \in 1..Len(body) : IsDigit(body[k]) \/ body[k] = "_"
        /\ IsDigit(body[1])
        /\ IsDigit(body[Len(body)])
        /\ \A k \in 1..(Len(body) - 1) : ~(body[k] = "_" /\ body[k + 1] = "_")
      mag == DigitsValue(SelectSeq(body, IsDigit))
  IN  IF ~wellFormed THEN [ok |-> FALSE, value |-> 0]
      ELSE [ok |-> TRUE,
            value |-> IF signed /\ t[1] = "-" THEN 0 - mag ELSE mag]

\* str(n) for an int
RECURSIVE NatStr(_)
NatStr(n) ==
  IF n < 10 THEN <<Digits[n + 1]>>
  ELSE NatStr(n \div 10) \o <<Digits[(n % 10) + 1]>>

Str(n) == IF n < 0 THEN <<"-">> \o NatStr(0 - n) ELSE NatStr(n)

\* sep.join(parts)
RECURSIVE Join(_, _)
Join(sep, parts) ==
  IF parts = <<>> THEN <<>>
  ELSE IF Len(parts) = 1 THEN parts[1]
  ELSE parts[1] \o sep \o Join(sep, Tail(parts))

UpperLetters ==
  <<"A", "B", "C", "D", "E", "F", "G", "H", "I", "J", "K", "L", "M",
    "N", "O", "P", "Q", "R", "S", "T", "U", "V", "W", "X", "Y", "Z">>
LowerLetters ==
  <<"a", "b", "c", "d", "e", "f", "g", "h", "i", "j", "k", "l", "m",
    "n", "o", "p", "q", "r", "s", "t", "u", "v", "w", "x", "y", "z">>

\* s.lower()
LowerChar(c) ==
  IF \E i \in 1..Len(UpperLetters) : UpperLetters[i] = c
    THEN LowerLetters[CHOOSE i \in 1..Len(UpperLetters) : UpperLetters[i] = c]
    ELSE c
Lower(s) == [k \in 1..Len(s) |-> LowerChar(s[k])]

\* s.startswith(prefix)
StartsWith(s, prefix) == OccursAt(s, prefix, 0)

\* s.split("\n")[:n]
RECURSIVE SplitLines(_, _)
SplitLines(s, n) ==
  IF n = 0 THEN <<>>
  ELSE IF \A k \in 1..Len(s) : s[k] # LF THEN <<s>>
  ELSE LET k == CHOOSE i \in 1..Len(s) :
                  s[i] = LF /\ \A j \in 1..(i - 1) : s[j] # LF
       IN  <<SubSeq(s, 1, k - 1)>> \o SplitLines(SubSeq(s, k + 1, Len(s)), n - 1)

\* ------------------------------------------------------------ the resolver
\* The literal that extract_pdf writes in front of every page's text and
\* that _infer_page_from_offset searches for.
marker == <<"[", "P", "A", "G", "E", " ">>

\* f"[PAGE {page_number}]" of extract_pdf
PageMarker(page_number) == marker \o Str(page_number) \o <<"]">>

\* f"[PAGE {page_number}]\n{text}" of extract_pdf
PageBlock(page_number, page_text) == PageMarker(page_number) \o <<LF>> \o page_text

\* extract_pdf's full_text for the page texts of a PDF, in page order.
PdfFullText(page_texts) ==
  Join(<<LF, LF>>, [n \in 1..Len(page_texts) |-> PageBlock(n, page_texts[n])])

\* The outcome of a call: a returned Optional[int], or an exception.
Returned(v) == [raised |-> FALSE, value |-> v]
Raised == [raised |-> TRUE, value |-> None]

\* int(page_str.strip()) with the ValueError left to propagate.
UncaughtPageInt(page_str) ==
  LET r == ParseInt(Strip(page_str))
  IN  IF r.ok THEN Returned(Some(r.value)) ELSE Raised

\* try: return int(page_str.strip())  except ValueError: return None
TryPageInt(page_str) ==
  LET r == ParseInt(Strip(page_str))
  IN  IF r.ok THEN Returned(Some(r.value)) ELSE Returned(None)

\* _infer_page_from_offset(full_text, char_index)
InferPageFromOffset(content, offset) ==
  LET pos == RFind(content, marker, 0, offset)
  IN  IF pos = -1 THEN Returned(None)
      ELSE LET end_bracket == Find(content, <<"]">>, pos)
           IN  IF end_bracket = -1 THEN Returned(None)
               ELSE TryPageInt(Slice(content, pos + Len(marker), end_bracket))

\* ------------------------------------------------------------- the chunker
\* f"chunk_{chunk_id}"
ChunkName(n) == <<"chunk_">> \o Str(n)

\* The window's end left unclamped at the end of the text.
WindowEndUnclamped(s, size, len) == s + size

\* end = min(start + chunk_chars, doc_len)
WindowEnd(s, size, len) == Min(s + size, len)

\* The window moved on without stepping back by the overlap.
NextStartNoOverlap(e, ov) == Max(0, e)

\* The window moved on past the character at its end.
NextStartSkipsOne(e, ov) == Max(0, e + 1)

\* start = max(0, end - overlap)
NextStart(e, ov) == Max(0, e - ov)

\* The dict appended for the window [s, e) of txt.
MakeChunk(txt, s, e, n) ==
  [id |-> ChunkName(n), text |-> Slice(txt, s, e), meta |-> [start |-> s, end |-> e]]

\* The guard without its strip test.
IsEmptyOnly(txt) == txt = <<>>

\* `not text or len(text.strip()) == 0`
IsBlank(txt) == txt = <<>> \/ Len(Strip(txt)) = 0

\* The loop condition without the cap on the number of chunks.
LoopGuardNoCap(s, len, n, cap) == s < len

\* while start < doc_len and chunk_id < max_chunks
LoopGuard(s, len, n, cap) == s < len /\ n < cap

\* The while loop of chunk_text run to its end from one loop head.
RECURSIVE ChunkLoop(_, _, _, _, _, _, _)
ChunkLoop(txt, s, n, acc, size, ov, cap) ==
  IF ~LoopGuard(s, Len(txt), n, cap) THEN acc
  ELSE LET e == WindowEnd(s, size, Len(txt))
           out == Append(acc, MakeChunk(txt, s, e, n))
       IN  IF e >= Len(txt) THEN out
           ELSE ChunkLoop(txt, NextStart(e, ov), n + 1, out, size, ov, cap)

\* chunk_text(text, chunk_chars, overlap, max_chunks)
ChunkText(txt, size, ov, cap) ==
  IF IsBlank(txt) THEN <<>>
  ELSE ChunkLoop(RemoveCR(txt), 0, 0, <<>>, size, ov, cap)

\* ------------------------------------------------------------------- state
VARIABLES
  pc,          \* where the modelled call stands
  full_text,   \* the string the caller holds and passes on
  chunk_chars, \* chunk_text's parameters
  overlap,
  max_chunks,
  text,        \* chunk_text's local `text` (after the CR replace)
  doc_len,
  start,
  chunk_id,
  chunks,      \* the list chunk_text builds and returns
  pages,       \* the page resolved for each returned chunk
  char_index,  \* the resolver's offset argument, when called on its own
  result,      \* its outcome
  file_paths,  \* extract_documents' argument
  next_file,   \* the position of its loop in file_paths (1-based)
  all_chunks,  \* the list it builds and returns
  docs,        \* the Documents extract_document has returned to it, in order
  skipped      \* the paths whose failure it has caught and logged

chunkVars == <<chunk_chars, overlap, max_chunks, text, doc_len, start, chunk_id, chunks, pages>>
pageVars == <<char_index, result>>
ingestVars == <<file_paths, next_file, all_chunks, docs, skipped>>

VARIABLES
  vectors,     \* InMemoryVectorStore's three lists
  metadatas,
  ids,
  added,       \* the calls of add so far, in call order, as they were made
  query_vec,   \* similarity_search's arguments
  top_k,
  results,     \* its outcome
  query,       \* QAEngine.ask's argument
  scores,      \* the scores handed to _compute_confidence
  grouped,     \* ask's grouped_chunks, a dict in insertion order
  sources,     \* ask's sources_meta, likewise
  confidence,  \* the confidence ask computed
  mode,        \* the mode ask chose
  answers,     \* the answers dict of the per-document loop, in insertion order
  prompts,     \* the prompts handed to generate_text in this request, in order
  response     \* the outcome of ask

storeVars == <<vectors, metadatas, ids, added>>
searchVars == <<query_vec, top_k, results>>
askVars == <<query, scores, grouped, sources, confidence, mode, answers, prompts, response>>

\* The call of add_documents under way: its chunks and the texts of each
\* get_embeddings call it made.
VARIABLES batch, embedded

\* The server: the provider the shared QAEngine holds, the requests, the
\* request whose handler holds the event loop (0: none) and the generate_text
\* calls made, each with the request served and the provider called.
VARIABLES llm, requests, running, calls

addVars == <<batch, embedded>>
serveVars == <<llm, requests, running, calls>>
qaVars == <<storeVars, searchVars, askVars, addVars, serveVars>>
vars == <<pc, full_text, chunkVars, pageVars, ingestVars, qaVars>>

\* A confidence that has not been computed.
NoConfidence == [label |-> "none", max_score |-> None, avg_score |-> None]

IdleStore ==
  /\ vectors = <<>>
  /\ metadatas = <<>>
  /\ ids = <<>>
  /\ added = <<>>

IdleSearch ==
  /\ query_vec = <<>>
  /\ top_k = 0
  /\ results = Returned(<<>>)

IdleAsk ==
  /\ query = <<>>
  /\ scores = <<>>
  /\ grouped = <<>>
  /\ sources = <<>>
  /\ confidence = NoConfidence
  /\ mode = "none"
  /\ answers = <<>>
  /\ prompts = <<>>
  /\ response = Returned(None)

IdleAdd ==
  /\ batch = <<>>
  /\ embedded = <<>>

\* The most requests in flight.
MaxRequests == 2

\* No request has arrived.
NoRequest == [kind |-> "none", model |-> "none", step |-> "none", left |-> 0]

\* The server as main.py builds it: the QAEngine holds the default provider.
IdleServe ==
  /\ llm = "gemini"
  /\ requests = [r \in 1..MaxRequests |-> NoRequest]
  /\ running = 0
  /\ calls = {}

IdleQA == IdleStore /\ IdleSearch /\ IdleAsk /\ IdleAdd /\ IdleServe

\* ------------------------------------------- chunk_text, parameters free
\* The characters of the short texts: a letter, a blank and a carriage return.
Alphabet == {"a", SP, CR}

SeqsUpTo(S, n) == UNION {[1..k -> S] : k \in 0..n}

\* The two-page text of the end-to-end example, as extract_pdf lays it out.
AlphaText == <<"A", "l", "p", "h", "a", " ", "t", "e", "x", "t", ".">>
BetaText == <<"B", "e", "t", "a", " ", "t", "e", "x", "t", ".">>
TwoPageText == PdfFullText(<<AlphaText, BetaText>>)
\* its chunk size and overlap
TwoPageParams == [chunk_chars |-> 20, overlap |-> 5]

ChunkTexts == SeqsUpTo(Alphabet, MaxLen) \cup {TwoPageText}

ChunkParams ==
  ((1..MaxChunkChars) \X (0..MaxOverlap) \X (0..MaxMaxChunks))
    \cup {<<TwoPageParams.chunk_chars, TwoPageParams.overlap, MAX_CHUNKS>>}

IdlePage == /\ char_index = 0
            /\ result = Returned(None)

IdleIngest ==
  /\ file_paths = <<>>
  /\ next_file = 1
  /\ all_chunks = <<>>
  /\ docs = <<>>
  /\ skipped = <<>>

InitChunk ==
  /\ pc = "idle"
  /\ full_text = <<>>
  /\ chunk_chars = 1
  /\ overlap = 0
  /\ max_chunks = 0
  /\ text = <<>>
  /\ doc_len = 0
  /\ start = 0
  /\ chunk_id = 0
  /\ chunks = <<>>
  /\ pages = <<>>
  /\ IdlePage
  /\ IdleIngest
  /\ IdleQA

\* A caller calls chunk_text(full_text, chunk_chars, overlap, max_chunks).
ChunkCall ==
  /\ pc = "idle"
  /\ pc' = "call"
  /\ full_text' \in ChunkTexts
  /\ \E p \in ChunkParams :
       /\ chunk_chars' = p[1]
       /\ overlap' = p[2]
       /\ max_chunks' = p[3]
  /\ text' = full_text'
  /\ UNCHANGED <<qaVars, doc_len, start, chunk_id, chunks, pages, pageVars, ingestVars>>

\* chunk_text up to its loop head: the blank-text return, or the CR replace
\* and the initialisation of the locals.
ChunkEnter ==
  /\ pc = "call"
  /\ IF IsBlank(text)
       THEN /\ pc' = "return"
            /\ UNCHANGED <<text, doc_len>>
       ELSE /\ pc' = "loop"
            /\ text' = RemoveCR(text)
            /\ doc_len' = Len(RemoveCR(text))
  /\ start' = 0
  /\ chunk_id' = 0
  /\ chunks' = <<>>
  /\ UNCHANGED <<qaVars, full_text, chunk_chars, overlap, max_chunks, pages, pageVars, ingestVars>>

\* One iteration of the while loop.
ChunkStep ==
  /\ pc = "loop"
  /\ LoopGuard(start, doc_len, chunk_id, max_chunks)
  /\ LET end == WindowEnd(start, chunk_chars, doc_len)
     IN  /\ chunks' = Append(chunks, MakeChunk(text, start, end, chunk_id))
         /\ chunk_id' = chunk_id + 1
         /\ IF end >= doc_len
              THEN /\ pc' = "return"
                   /\ start' = start
              ELSE /\ pc' = "loop"
                   /\ start' = NextStart(end, overlap)
  /\ UNCHANGED <<qaVars, full_text, chunk_chars, overlap, max_chunks, text, doc_len, pages, pageVars, ingestVars>>

\* The loop condition fails at the loop head.
ChunkExit ==
  /\ pc = "loop"
  /\ ~LoopGuard(start, doc_len, chunk_id, max_chunks)
  /\ pc' = "return"
  /\ UNCHANGED <<qaVars, full_text, chunkVars, pageVars, ingestVars>>

\* The caller resolves the page of every returned chunk from its start offset.
ResolvePages ==
  /\ pc = "return"
  /\ pages' = [i \in 1..Len(chunks) |->
                 InferPageFromOffset(full_text, chunks[i].meta.start)]
  /\ pc' = "done"
  /\ UNCHANGED <<qaVars, full_text, chunk_chars, overlap, max_chunks, text, doc_len,
                 start, chunk_id, chunks, pageVars, ingestVars>>

NextChunk == ChunkCall \/ ChunkEnter \/ ChunkStep \/ ChunkExit \/ ResolvePages

SpecChunk == InitChunk /\ [][NextChunk]_vars

\* The interpreter runs a started call of chunk_text on: none of its steps
\* waits for ever.
FairSpecChunk == SpecChunk /\ WF_vars(ChunkEnter \/ ChunkStep \/ ChunkExit)

\* ----------------------------------------------- properties of chunk_text
Returning == pc \in {"return", "done"}

WhitespaceOnly(txt) == \A k \in 1..Len(txt) : IsSpace(txt[k])

\* C1: when chunk_chars > overlap >= 0, the chunks have strictly increasing
\* meta.start, none is longer than chunk_chars, and every pair of consecutive
\* chunks but possibly the last pair overlaps by exactly `overlap` characters:
\* the next chunk starts at the previous end minus overlap, and the last
\* `overlap` characters of the previous text open the next text.
C1_WindowShape ==
  chunk_chars > overlap =>
    /\ \A i, j \in 1..Len(chunks) :
         i < j => chunks[i].meta.start < chunks[j].meta.start
    /\ \A i \in 1..Len(chunks) :
         /\ Len(chunks[i].text) <= chunk_chars
         /\ chunks[i].meta.end - chunks[i].meta.start <= chunk_chars
    /\ \A i \in 1..(Len(chunks) - 2) :
         LET prev == chunks[i]
             next == chunks[i + 1]
         IN  /\ next.meta.start = prev.meta.end - overlap
             /\ Slice(prev.text, Len(prev.text) - overlap, Len(prev.text))
                  = Slice(next.text, 0, overlap)

\* A finished call with a positive overlap smaller than the chunk size that
\* produced three chunks or more.
C1_Witness ==
  /\ pc = "done"
  /\ chunk_chars > overlap
  /\ overlap > 0
  /\ Len(chunks) >= 3

\* C3: every chunk satisfies 0 <= meta.start < meta.end <= len(full_text),
\* and meta.start never decreases from one chunk to the next.
C3_OffsetsInRange ==
  /\ \A i \in 1..Len(chunks) :
       /\ 0 <= chunks[i].meta.start
       /\ chunks[i].meta.start < chunks[i].meta.end
       /\ chunks[i].meta.end <= Len(full_text)
  /\ \A i \in 1..(Len(chunks) - 1) :
       chunks[i].meta.start <= chunks[i + 1].meta.start

\* A finished call whose overlap is not smaller than the chunk size, on a
\* text holding a carriage return, that produced two chunks or more.
C3_Witness ==
  /\ pc = "done"
  /\ overlap >= chunk_chars
  /\ Len(chunks) >= 2
  /\ \E k \in 1..Len(full_text) : full_text[k] = CR

\* C9: every call of chunk_text returns; it never holds more than max_chunks
\* chunks; no chunk follows one whose end has reached len(text); and when it
\* returns from the loop, the last chunk's end has reached len(text) or
\* max_chunks chunks have been emitted.
C9_Terminates ==
  /\ (pc = "call") ~> Returning
  /\ [](Len(chunks) <= max_chunks)
  /\ [](\A i \in 1..(Len(chunks) - 1) : chunks[i].meta.end < doc_len)
  /\ [](Returning /\ ~IsBlank(full_text) =>
          \/ Len(chunks) = max_chunks
          \/ /\ chunks # <<>>
             /\ chunks[Len(chunks)].meta.end >= Len(text))

\* A finished call with overlap >= chunk_chars that the cap stopped, before
\* the end of the text was reached.
C9_Witness ==
  /\ pc = "done"
  /\ overlap >= chunk_chars
  /\ max_chunks >= 2
  /\ Len(chunks) = max_chunks
  /\ chunks[Len(chunks)].meta.end < doc_len

\* C10: for the empty string and for a string of whitespace only, chunk_text
\* returns the empty list.
C10_BlankGivesNoChunks ==
  Returning /\ WhitespaceOnly(full_text) => chunks = <<>>

\* A finished call on a non-empty whitespace-only text that was allowed to
\* emit chunks.
C10_Witness ==
  /\ pc = "done"
  /\ full_text # <<>>
  /\ WhitespaceOnly(full_text)
  /\ max_chunks > 0
  /\ chunks = <<>>

\* ------------------------------------- _infer_page_from_offset, on its own
RECURSIVE Concat(_)
Concat(parts) == IF parts = <<>> THEN <<>> ELSE parts[1] \o Concat(Tail(parts))

\* The page numbers whose markers appear whole in the resolver's texts.
PageNumbers == {7, 12}

\* What the texts are put together from: whole markers, the bare opening of
\* a marker, a closing bracket, and characters of page text.
Pieces ==
  {PageMarker(n) : n \in PageNumbers}
    \cup {marker, <<"]">>, <<"x">>, <<"7">>, <<SP>>, <<"-">>}

PageTexts == {Concat(ps) : ps \in SeqsUpTo(Pieces, MaxPieces)}

IdleChunk ==
  /\ chunk_chars = 1
  /\ overlap = 0
  /\ max_chunks = 0
  /\ text = <<>>
  /\ doc_len = 0
  /\ start = 0
  /\ chunk_id = 0
  /\ chunks = <<>>
  /\ pages = <<>>

InitPage ==
  /\ pc = "resolve"
  /\ full_text \in PageTexts
  /\ char_index \in 0..(Len(full_text) + 1)
  /\ result = Returned(None)
  /\ IdleChunk
  /\ IdleIngest
  /\ IdleQA

\* _infer_page_from_offset(full_text, char_index) is called and returns or raises.
InferPage ==
  /\ pc = "resolve"
  /\ result' = InferPageFromOffset(full_text, char_index)
  /\ pc' = "resolved"
  /\ UNCHANGED <<qaVars, full_text, char_index, chunkVars, ingestVars>>

NextPage == InferPage

SpecPage == InitPage /\ [][NextPage]_vars

\* The positions at which a "[PAGE " starts in full_text.
MarkerStarts == {q \in 0..Len(full_text) : OccursAt(full_text, marker, q)}

\* C6: at an offset that follows a whole "[PAGE n]" marker (n = 7, or any
\* other page number) and lies before the next marker, the resolver returns
\* n; at an offset before the first marker it returns None.
C6_RoundTrip ==
  pc = "resolved" =>
    /\ \A n \in PageNumbers : \A p \in 0..Len(full_text) :
         ( /\ OccursAt(full_text, PageMarker(n), p)
           /\ p + Len(PageMarker(n)) <= char_index
           /\ \A q \in MarkerStarts : q <= p \/ q >= char_index )
         => result = Returned(Some(n))
    /\ (\A q \in MarkerStarts : q >= char_index) => result = Returned(None)

\* The resolver has answered 7 for an offset between "[PAGE 7]" and a later
\* marker.
C6_Witness ==
  /\ pc = "resolved"
  /\ result = Returned(Some(7))
  /\ \E p \in MarkerStarts :
       /\ OccursAt(full_text, PageMarker(7), p)
       /\ p + Len(PageMarker(7)) <= char_index
       /\ \E q \in MarkerStarts : q >= char_index

\* The markers that lie wholly before the offset.
Preceding ==
  {q \in MarkerStarts : q + Len(marker) <= Min(char_index, Len(full_text))}

Nearest == CHOOSE q \in Preceding : \A r \in Preceding : r <= q

\* The positions of the closing brackets from the nearest marker on.
Closings == {b \in Nearest..(Len(full_text) - 1) : full_text[b + 1] = "]"}

FirstClosing == CHOOSE b \in Closings : \A c \in Closings : b <= c

\* C7: the resolver never raises, and it returns None when no "[PAGE " lies
\* before the offset, when no "]" follows the nearest such marker, and when
\* the text between that marker and its "]" is not an integer.
C7_NeverRaises ==
  pc = "resolved" =>
    /\ ~result.raised
    /\ Preceding = {} => result.value = None
    /\ (Preceding # {} /\ Closings = {}) => result.value = None
    /\ ( /\ Preceding # {}
         /\ Closings # {}
         /\ ~ParseInt(Slice(full_text, Nearest + Len(marker), FirstClosing)).ok )
       => result.value = None

\* The resolver has returned None for a closed marker whose content is not
\* an integer.
C7_Witness ==
  /\ pc = "resolved"
  /\ Preceding # {}
  /\ Closings # {}
  /\ ~ParseInt(Slice(full_text, Nearest + Len(marker), FirstClosing)).ok
  /\ result = Returned(None)

\* ---------------------------------------------------------------- the files
\* A path is its stem and its extension as written; the directory plays no
\* part. os.path.basename(path) is then <<stem, ext>>.
Path(stem, ext) == [stem |-> stem, ext |-> ext]
Basename(path) == <<path.stem, path.ext>>

\* ext.lower() for the extensions in use
LowerExt(ext) ==
  CASE ext = ".PDF" -> ".pdf"
    [] ext = ".Docx" -> ".docx"
    [] OTHER -> ext

\* hashlib.sha1(path.encode()).hexdigest()[:10]: a value fixed by the path.
DocId(path) == <<"sha1", path.stem, path.ext>>

Fill(n) == [k \in 1..n |-> "x"]

PageThreeLine == PageMarker(3)

\* What the disk holds at each path: whether the file exists, whether its
\* library can read it, its metadata title, and its content: the page texts
\* of a PDF, the paragraphs of a DOCX, the text nodes of an HTML file.
ShortPdf == Path("short", ".pdf")
LongPdf == Path("long", ".PDF")
CrPdf == Path("cr", ".pdf")
IntroPdf == Path("intro", ".pdf")
NotesDocx == Path("notes", ".Docx")
PageHtml == Path("page", ".html")
CrHtm == Path("cr", ".htm")
DataTxt == Path("data", ".txt")
GonePdf == Path("gone", ".pdf")
GoneTxt == Path("gone", ".txt")
BrokenDocx == Path("broken", ".docx")

Paths ==
  {ShortPdf, LongPdf, CrPdf, IntroPdf, NotesDocx, PageHtml, CrHtm, DataTxt, GonePdf, GoneTxt,
   BrokenDocx}

File(exists, readable, title, parts) ==
  [exists |-> exists, readable |-> readable, title |-> title, parts |-> parts]

Disk(path) ==
  CASE path = ShortPdf -> File(TRUE, TRUE, <<>>, <<<<"a", "b">>, <<"c", "d">>>>)
    [] path = LongPdf ->
         File(TRUE, TRUE, <<"L", "o", "n", "g">>,
              <<Fill(CHUNK_CHARS - OVERLAP), Fill(OVERLAP)>>)
    [] path = CrPdf -> File(TRUE, TRUE, <<SP>>, <<<<"a", CR, "b">>>>)
    [] path = IntroPdf -> File(TRUE, TRUE, <<>>, <<<<"I", "n", "t", "r", "o">>>>)
    [] path = NotesDocx ->
         File(TRUE, TRUE, <<>>, <<PageThreeLine, <<SP>>, Fill(CHUNK_CHARS)>>)
    [] path = PageHtml ->
         File(TRUE, TRUE, <<"H", "o", "m", "e">>,
              <<PageThreeLine \o <<SP>>, <<>>, Fill(CHUNK_CHARS)>>)
    [] path = CrHtm -> File(TRUE, TRUE, <<>>, <<<<SP, "a", CR, "b">>, <<"c">>>>)
    [] path = DataTxt -> File(TRUE, TRUE, <<>>, <<>>)
    [] path = GonePdf -> File(FALSE, FALSE, <<>>, <<>>)
    [] path = GoneTxt -> File(FALSE, FALSE, <<>>, <<>>)
    [] path = BrokenDocx -> File(TRUE, FALSE, <<>>, <<>>)

\* ----------------------------------------------------------- the extractors
\* re.match(r'^\[PAGE\s+\d+\]', line, re.IGNORECASE)
MatchesPageMarker(line) ==
  /\ StartsWith(Lower(line), <<"[", "p", "a", "g", "e">>)
  /\ \E d1 \in 7..Len(line) : \E d2 \in d1..(Len(line) - 1) :
       /\ \A k \in 6..(d1 - 1) : IsSpace(line[k])
       /\ \A k \in d1..d2 : IsDigit(line[k])
       /\ line[d2 + 1] = "]"

\* the test without its two clauses on page markers.
IsTitleLineMarkersToo(clean_line) ==
  /\ clean_line # <<>>
  /\ Len(clean_line) > 3
  /\ Len(clean_line) < 200
  /\ ~StartsWith(Lower(clean_line), <<"p", "a", "g", "e", " ">>)
  /\ ~StartsWith(Lower(clean_line), <<"c", "h", "a", "p", "t", "e", "r", " ">>)
  /\ ~StartsWith(Lower(clean_line), <<"s", "e", "c", "t", "i", "o", "n", " ">>)

\* The test get_document_name puts to a stripped line of the content.
IsTitleLine(clean_line) ==
  /\ clean_line # <<>>
  /\ Len(clean_line) > 3
  /\ Len(clean_line) < 200
  /\ ~StartsWith(Lower(clean_line), <<"p", "a", "g", "e", " ">>)
  /\ ~StartsWith(Lower(clean_line), <<"c", "h", "a", "p", "t", "e", "r", " ">>)
  /\ ~StartsWith(Lower(clean_line), <<"s", "e", "c", "t", "i", "o", "n", " ">>)
  /\ ~StartsWith(clean_line, <<"[", "P", "A", "G", "E">>)
  /\ ~MatchesPageMarker(clean_line)

\* get_document_name(path, doc_content), given doc_content['full_text'].
\* The base name is the stem, kept as one token.
GetDocumentName(path, content) ==
  LET base_name == <<path.stem>>
      file == Disk(path)
      lines == [i \in 1..Len(SplitLines(Strip(content), 10)) |->
                  Strip(SplitLines(Strip(content), 10)[i])]
      titled == {i \in 1..Len(lines) : IsTitleLine(lines[i])}
  IN  IF /\ LowerExt(path.ext) = ".pdf"
         /\ file.readable
         /\ Strip(file.title) # <<>>
        THEN Strip(file.title)
      ELSE IF content # <<>> /\ titled # {}
        THEN lines[CHOOSE i \in titled : \A j \in titled : i <= j]
      ELSE base_name

\* A call of an extractor: the Document it returns, or the exception raised.
NoDoc == [id |-> <<>>, path |-> <<>>, title |-> <<>>, full_text |-> <<>>]
Extracted(path, title, content) ==
  [raised |-> FALSE, error |-> "",
   doc |-> [id |-> DocId(path), path |-> path, title |-> title, full_text |-> content]]
Failed(error) == [raised |-> TRUE, error |-> error, doc |-> NoDoc]

\* extract_pdf(path)
ExtractPdf(path) ==
  IF ~Disk(path).readable THEN Failed("FileDataError")
  ELSE LET content == PdfFullText(Disk(path).parts)
       IN  Extracted(path, GetDocumentName(path, content), content)

\* The title an extractor found itself, or else get_document_name's.
OwnTitleOr(path, content) ==
  IF Strip(Disk(path).title) # <<>> THEN Strip(Disk(path).title)
  ELSE GetDocumentName(path, content)

\* extract_docx(path): the paragraphs that are not blank, one per line.
ExtractDocx(path) ==
  IF ~Disk(path).readable THEN Failed("PackageNotFoundError")
  ELSE LET content == Join(<<LF>>, SelectSeq(Disk(path).parts,
                                             LAMBDA para : Strip(para) # <<>>))
       IN  Extracted(path, OwnTitleOr(path, content), content)

\* extract_html(path): soup.get_text(" ", strip=True) joins the stripped,
\* non-empty text nodes with one blank.
ExtractHtml(path) ==
  IF ~Disk(path).readable THEN Failed("UnicodeDecodeError")
  ELSE LET nodes == SelectSeq(Disk(path).parts, LAMBDA node : Strip(node) # <<>>)
           content == Join(<<SP>>, [i \in 1..Len(nodes) |-> Strip(nodes[i])])
       IN  Extracted(path, OwnTitleOr(path, content), content)

\* extract_document(path)
ExtractDocument(path) ==
  IF ~Disk(path).exists THEN Failed("FileNotFoundError")
  ELSE LET ext == LowerExt(path.ext)
       IN  IF ext = ".pdf" THEN ExtractPdf(path)
           ELSE IF ext = ".docx" THEN ExtractDocx(path)
           ELSE IF ext \in {".html", ".htm"} THEN ExtractHtml(path)
           ELSE Failed("ValueError")

\* ------------------------------------------------------- extract_documents
\* The chunks of one Document after c["meta"].update({...}).
Annotate(doc, path, cs) ==
  [i \in 1..Len(cs) |->
     [id |-> cs[i].id,
      text |-> cs[i].text,
      meta |-> [start |-> cs[i].meta.start,
                end |-> cs[i].meta.end,
                source_doc |-> doc.id,
                source_name |-> Basename(path),
                document_name |-> doc.title,
                title |-> doc.title,
                source_path |-> path,
                page |-> InferPageFromOffset(doc.full_text, cs[i].meta.start).value]]]

\* Whether resolving the page of some chunk raises inside the try block.
AnnotateRaises(doc, cs) ==
  \E i \in 1..Len(cs) : InferPageFromOffset(doc.full_text, cs[i].meta.start).raised

\* chunk_text(full_text, chunk_chars=1500, overlap=200)
DocChunks(doc) == ChunkText(doc.full_text, CHUNK_CHARS, OVERLAP, MAX_CHUNKS)

\* The try block of the loop for one path, run once per path of the disk:
\* whether it raises, and if not the Document and its annotated chunks.
TryBlock(path) ==
  LET r == ExtractDocument(path)
  IN  IF r.raised
        THEN [raised |-> TRUE, error |-> r.error, doc |-> NoDoc, chunks |-> <<>>]
      ELSE LET cs == DocChunks(r.doc)
           IN  IF AnnotateRaises(r.doc, cs)
                 THEN [raised |-> TRUE, error |-> "ValueError", doc |-> NoDoc,
                       chunks |-> <<>>]
                 ELSE [raised |-> FALSE, error |-> "", doc |-> r.doc,
                       chunks |-> Annotate(r.doc, path, cs)]

\* an except clause for ValueError alone.
IsValueError(error) == error = "ValueError"

\* except Exception: every error the try block raises is an Exception.
IsException(error) ==
  error \in {"FileNotFoundError", "ValueError", "FileDataError",
             "PackageNotFoundError", "UnicodeDecodeError"}

TryBlocks == [path \in Paths |-> TryBlock(path)]

InitIngest ==
  /\ pc = "ingest"
  /\ file_paths \in SeqsUpTo(Paths, MaxFiles)
  /\ next_file = 1
  /\ all_chunks = <<>>
  /\ docs = <<>>
  /\ skipped = <<>>
  /\ full_text = <<>>
  /\ IdleChunk
  /\ IdlePage
  /\ IdleQA

\* One pass of the loop whose try block runs to its end: the file is
\* extracted, chunked, annotated and its chunks are appended.
IngestFile ==
  /\ pc = "ingest"
  /\ next_file <= Len(file_paths)
  /\ ~TryBlocks[file_paths[next_file]].raised
  /\ full_text' = TryBlocks[file_paths[next_file]].doc.full_text
  /\ docs' = Append(docs, TryBlocks[file_paths[next_file]].doc)
  /\ all_chunks' = all_chunks \o TryBlocks[file_paths[next_file]].chunks
  /\ next_file' = next_file + 1
  /\ UNCHANGED <<qaVars, pc, file_paths, skipped, chunkVars, pageVars>>

\* One pass of the loop whose try block raises: the except clause logs the
\* path with the error and the loop goes on; an error the clause does not
\* catch leaves extract_documents.
SkipFile ==
  /\ pc = "ingest"
  /\ next_file <= Len(file_paths)
  /\ TryBlocks[file_paths[next_file]].raised
  /\ IF IsException(TryBlocks[file_paths[next_file]].error)
       THEN /\ skipped' = Append(skipped, [path |-> file_paths[next_file],
                                           error |-> TryBlocks[file_paths[next_file]].error])
            /\ next_file' = next_file + 1
            /\ pc' = pc
       ELSE /\ pc' = "raised"
            /\ UNCHANGED <<skipped, next_file>>
  /\ UNCHANGED <<qaVars, file_paths, full_text, all_chunks, docs, chunkVars, pageVars>>

\* The loop is over: extract_documents returns all_chunks.
IngestReturn ==
  /\ pc = "ingest"
  /\ next_file > Len(file_paths)
  /\ pc' = "ingested"
  /\ UNCHANGED <<qaVars, full_text, chunkVars, pageVars, ingestVars>>

NextIngest == IngestFile \/ SkipFile \/ IngestReturn

SpecIngest == InitIngest /\ [][NextIngest]_vars

\* ------------------------------------------- properties of the ingestion
\* The Documents a chunk may come from: those extracted from its source path.
DocsOf(c) == {i \in 1..Len(docs) : docs[i].path = c.meta.source_path}

\* C2: the text of every chunk extract_documents has produced equals
\* full_text[meta.start:meta.end] of its Document's full_text, also when that
\* full_text holds carriage returns.
C2_TextAtOffsets ==
  \A k \in 1..Len(all_chunks) : \A i \in DocsOf(all_chunks[k]) :
    all_chunks[k].text
      = Slice(docs[i].full_text, all_chunks[k].meta.start, all_chunks[k].meta.end)

\* C4: no two chunks of the list one call of extract_documents returns have
\* the same id.
C4_UniqueIds ==
  pc = "ingested" =>
    \A i, j \in 1..Len(all_chunks) :
      i # j => all_chunks[i].id # all_chunks[j].id

\* The page of the two-page example that holds an offset: the first page's
\* block and the blank line after it, then the second page's block.
TwoPagePageOf(offset) ==
  IF offset < Len(PageBlock(1, AlphaText)) + 2 THEN 1 ELSE 2

\* C5: for the two-page example chunked with chunk size 20 and overlap 5,
\* the page resolved for every chunk from its start offset is the page,
\* 1 or 2, that holds that offset, and never None.
C5_EndToEndPages ==
  ( /\ pc = "done"
    /\ full_text = TwoPageText
    /\ chunk_chars = TwoPageParams.chunk_chars
    /\ overlap = TwoPageParams.overlap
    /\ max_chunks = MAX_CHUNKS )
  => \A i \in 1..Len(chunks) :
       pages[i] = Returned(Some(TwoPagePageOf(chunks[i].meta.start)))

\* C8: every chunk extract_documents produces from a DOCX or an HTML file
\* has meta.page = None.
C8_NoPageOutsidePdf ==
  \A k \in 1..Len(all_chunks) :
    LowerExt(all_chunks[k].meta.source_path.ext) \in {".docx", ".html", ".htm"}
      => all_chunks[k].meta.page = None

\* ------------------------------------------------------------ vector store
\* The store's numbers are float32. They are modelled exactly, as rationals
\* num/den with den > 0.
Rat(n, d) == [num |-> n, den |-> d]
Zero == Rat(0, 1)
One == Rat(1, 1)
RatLeq(a, b) == a.num * b.den <= b.num * a.den
RatLess(a, b) == a.num * b.den < b.num * a.den
RatEq(a, b) == a.num * b.den = b.num * a.den
RatAdd(a, b) == Rat(a.num * b.den + b.num * a.den, a.den * b.den)

\* The dot product of two vectors of one dimension.
RECURSIVE Dot(_, _)
Dot(u, v) == IF u = <<>> THEN 0 ELSE u[1] * v[1] + Dot(Tail(u), Tail(v))

\* np.linalg.norm(vec), for the vectors whose norm is a whole number.
NormOf(v) == CHOOSE n \in 0..Dot(v, v) : n * n = Dot(v, v)

\* vec left as it was passed.
NotNormalized(v) == [num |-> v, den |-> 1]

\* vec / (np.linalg.norm(vec) + 1e-10): the numerators over their common
\* denominator. Against a norm of 1 or more the 1e-10 is below what float32
\* resolves, so the divisor is the norm; the zero vector is divided by 1e-10
\* alone, and 0 / 1e-10 is 0.
Normalized(v) ==
  LET norm == NormOf(v)
  IN  IF norm = 0 THEN [num |-> v, den |-> 1] ELSE [num |-> v, den |-> norm]

\* `x or ...`: None and the empty string are falsy.
Truthy(opt) == opt # None /\ opt[1] # <<>>

\* the id is always the position.
StoreIdIgnoreGiven(given, n) == Str(n)

\* id or str(len(self.ids))
StoreId(given, n) == IF Truthy(given) THEN given[1] ELSE Str(n)

\* One row of mat.dot(q) for a stored vector and the normalized query.
Score(stored, q) == Rat(Dot(stored.num, q.num), stored.den * q.den)

\* np.argsort(-scores): the default sort kind is not a stable one, so every
\* order of the positions that puts no lower score before a higher one is a
\* possible outcome.
ArgsortDescending(sc) ==
  {perm \in Permutations(DOMAIN sc) :
     \A i, j \in DOMAIN sc : i < j => RatLeq(sc[perm[j]], sc[perm[i]])}

\* similarity_search from np.array(query_vec) on: the set of its possible
\* outcomes. np.stack raises on an empty list, and dot on vectors of another
\* dimension than the query's.
SearchScan(vs, ms, idl, qv, k) ==
  LET q == Normalized(qv)
  IN  IF Len(vs) = 0 \/ \E i \in 1..Len(vs) : Len(vs[i].num) # Len(qv)
        THEN {Raised}
        ELSE LET sc == [i \in 1..Len(vs) |-> Score(vs[i], q)]
             IN  { Returned([j \in 1..SliceIndex(k, Len(vs)) |->
                               [id |-> idl[perm[j]],
                                score |-> sc[perm[j]],
                                metadata |-> ms[perm[j]]]])
                   : perm \in ArgsortDescending(sc) }

\* similarity_search without its test for an empty store.
SearchUnguarded(vs, ms, idl, qv, k) == SearchScan(vs, ms, idl, qv, k)

\* similarity_search(query_vec, top_k)
SimilaritySearch(vs, ms, idl, qv, k) ==
  IF Len(vs) = 0 THEN {Returned(<<>>)} ELSE SearchScan(vs, ms, idl, qv, k)

\* ------------------------------------------ the store, called from outside
\* Most records in the store, and the largest top_k asked for.
MaxStore == 2
MaxTopK == 2

\* The vectors handed to add: the zero vector, two of one direction and
\* different length, and one at a right angle to them.
AddVectors == {<<0, 0>>, <<3, 4>>, <<6, 8>>, <<-4, 3>>}
\* The query vectors; the last has another dimension than the stored ones.
QueryVectors == {<<0, 0>>, <<1, 0>>, <<3, 4>>, <<0, 1>>, <<1>>}
Payloads == {"m1", "m2"}
GivenIds == {None, Some(<<"c", "7">>)}
TopKs == -1..MaxTopK

InitStore ==
  /\ pc = "store"
  /\ full_text = <<>>
  /\ IdleChunk
  /\ IdlePage
  /\ IdleIngest
  /\ IdleQA

\* add(vec, metadata, id)
Add ==
  /\ pc = "store"
  /\ Len(vectors) < MaxStore
  /\ \E v \in AddVectors, m \in Payloads, given \in GivenIds :
       /\ vectors' = Append(vectors, Normalized(v))
       /\ metadatas' = Append(metadatas, m)
       /\ ids' = Append(ids, StoreId(given, Len(ids)))
       /\ added' = Append(added, [vec |-> v, metadata |-> m, id |-> given])
  /\ UNCHANGED <<pc, full_text, addVars, serveVars, chunkVars, pageVars, ingestVars,
                 searchVars, askVars>>

\* similarity_search(query_vec, top_k) is called and returns or raises.
Search ==
  /\ pc = "store"
  /\ \E qv \in QueryVectors, k \in TopKs :
       /\ query_vec' = qv
       /\ top_k' = k
       /\ results' \in SimilaritySearch(vectors, metadatas, ids, qv, k)
  /\ pc' = "searched"
  /\ UNCHANGED <<full_text, addVars, serveVars, chunkVars, pageVars, ingestVars,
                 storeVars, askVars>>

\* The caller has taken the outcome and goes on.
SearchDone ==
  /\ pc = "searched"
  /\ pc' = "store"
  /\ query_vec' = <<>>
  /\ top_k' = 0
  /\ results' = Returned(<<>>)
  /\ UNCHANGED <<full_text, addVars, serveVars, chunkVars, pageVars, ingestVars,
                 storeVars, askVars>>

NextStore == Add \/ Search \/ SearchDone

SpecStore == InitStore /\ [][NextStore]_vars

\* ------------------------------------------------ properties of the store
\* similarity_search has been called.
Searched == pc = "searched"

\* The score of the stored record at a position against the last query.
ScoreAt(i) == Score(vectors[i], Normalized(query_vec))

\* The position that comes first of two: the higher score, and of equal
\* scores the one added earlier.
Before(i, j) ==
  \/ RatLess(ScoreAt(j), ScoreAt(i))
  \/ RatEq(ScoreAt(i), ScoreAt(j)) /\ i < j

\* The positions of the store in that order.
StableOrder ==
  CHOOSE perm \in Permutations(1..Len(vectors)) :
    \A i, j \in 1..Len(vectors) : i < j => Before(perm[i], perm[j])

\* C11: a similarity_search that returns, given top_k >= 0, returns the
\* top_k highest-scoring stored records (all of them if there are fewer) in
\* non-increasing score order, records of equal score in the order in which
\* they were added.
C11_TopKStable ==
  (Searched /\ ~results.raised /\ top_k >= 0 /\ Len(vectors) > 0)
  => results.value
       = [j \in 1..Min(top_k, Len(vectors)) |->
            [id |-> ids[StableOrder[j]],
             score |-> ScoreAt(StableOrder[j]),
             metadata |-> metadatas[StableOrder[j]]]]

\* C12: similarity_search on a store to which nothing has been added
\* returns the empty list, whatever the query vector and top_k, and does not
\* raise.
C12_EmptyStoreEmptyResult ==
  (Searched /\ Len(added) = 0) => results = Returned(<<>>)

C12_Witness ==
  /\ Searched
  /\ Len(added) = 0
  /\ Len(query_vec) = 1
  /\ top_k = MaxTopK

\* The square of the L2 norm of a stored vector.
NormSquared(stored) == Rat(Dot(stored.num, stored.num), stored.den * stored.den)

IsZeroVector(v) == \A i \in 1..Len(v) : v[i] = 0

RecordOf(i) ==
  [vector |-> vectors[i], metadata |-> metadatas[i], id |-> ids[i]]

\* The record the i-th call of add is to leave in the store.
RecordAdded(i) ==
  [vector |-> Normalized(added[i].vec),
   metadata |-> added[i].metadata,
   id |-> IF added[i].id \in {None, Some(<<>>)} THEN Str(i - 1) ELSE added[i].id[1]]

\* C14: after any sequence of add and similarity_search calls the three
\* lists have one length, the number of add calls, and hold the added
\* records in call order; no step changes or removes a record already
\* stored, and similarity_search changes none of the three lists.
C14_AppendOnly ==
  /\ [](/\ Len(vectors) = Len(added)
        /\ Len(metadatas) = Len(added)
        /\ Len(ids) = Len(added)
        /\ \A i \in 1..Len(added) : RecordOf(i) = RecordAdded(i))
  /\ [][/\ Len(vectors') >= Len(vectors)
        /\ \A i \in 1..Len(vectors) :
             /\ vectors'[i] = vectors[i]
             /\ metadatas'[i] = metadatas[i]
             /\ ids'[i] = ids[i]
        /\ (added' = added => UNCHANGED <<vectors, metadatas, ids>>)]_vars

C14_Witness ==
  /\ Searched
  /\ ~results.raised
  /\ Len(results.value) = 1
  /\ Len(added) = 2
  /\ added[1].id = Some(<<"c", "7">>)
  /\ added[2].id = None
  /\ added[1].metadata # added[2].metadata

\* ------------------------------------------------------------- confidence
\* The thresholds of _compute_confidence: 0.85, 0.65, 0.6 and 0.4.
HighMax == Rat(17, 20)
HighAvg == Rat(13, 20)
MediumMax == Rat(3, 5)
MediumAvg == Rat(2, 5)

\* sum(scores)
RECURSIVE RatSum(_)
RatSum(sc) == IF sc = <<>> THEN Zero ELSE RatAdd(sc[1], RatSum(Tail(sc)))

\* max(scores), of a list that is not empty
RatMax(sc) == sc[CHOOSE i \in 1..Len(sc) : \A j \in 1..Len(sc) : RatLeq(sc[j], sc[i])]

\* sum(scores) / len(scores)
RatMean(sc) == Rat(RatSum(sc).num, RatSum(sc).den * Len(sc))

NoChunksExplanation == "No supporting chunks retrieved; answer is likely ungrounded."
DerivedExplanation == "Derived from cosine similarity between the question and retrieved chunks."

\* The label with comparisons that let the threshold itself pass.
LabelNotStrict(max_score, avg_score) ==
  IF RatLeq(HighMax, max_score) /\ RatLeq(HighAvg, avg_score) THEN "high"
  ELSE IF RatLeq(MediumMax, max_score) /\ RatLeq(MediumAvg, avg_score) THEN "medium"
  ELSE "low"

\* The if / elif / else of _compute_confidence.
Label(max_score, avg_score) ==
  IF RatLess(HighMax, max_score) /\ RatLess(HighAvg, avg_score) THEN "high"
  ELSE IF RatLess(MediumMax, max_score) /\ RatLess(MediumAvg, avg_score) THEN "medium"
  ELSE "low"

\* _compute_confidence(scores)
ComputeConfidence(sc) ==
  IF sc = <<>>
    THEN [label |-> "low", max_score |-> Zero, avg_score |-> Zero,
          explanation |-> NoChunksExplanation]
    ELSE [label |-> Label(RatMax(sc), RatMean(sc)),
          max_score |-> RatMax(sc),
          avg_score |-> RatMean(sc),
          explanation |-> DerivedExplanation]

\* ----------------------------------------- _compute_confidence on its own
\* Most scores in one list.
MaxScores == 2

\* The scores tried: 0.2, 0.4, 0.5, 0.6, 0.65, 0.7, 0.85, 0.9 and 1.
ScoreValues ==
  {Rat(1, 5), Rat(2, 5), Rat(1, 2), Rat(3, 5), Rat(13, 20), Rat(7, 10),
   Rat(17, 20), Rat(9, 10), Rat(1, 1)}

InitConfidence ==
  /\ pc = "confidence"
  /\ full_text = <<>>
  /\ IdleChunk
  /\ IdlePage
  /\ IdleIngest
  /\ IdleStore
  /\ IdleSearch
  /\ IdleAdd
  /\ IdleServe
  /\ query = <<>>
  /\ scores \in SeqsUpTo(ScoreValues, MaxScores)
  /\ grouped = <<>>
  /\ sources = <<>>
  /\ confidence = NoConfidence
  /\ mode = "none"
  /\ answers = <<>>
  /\ prompts = <<>>
  /\ response = Returned(None)

\* _compute_confidence(scores) is called and returns.
Confidence ==
  /\ pc = "confidence"
  /\ pc' = "computed"
  /\ confidence' = ComputeConfidence(scores)
  /\ UNCHANGED <<full_text, addVars, serveVars, chunkVars, pageVars, ingestVars,
                 storeVars, searchVars,
                 query, scores, grouped, sources, mode, answers, prompts, response>>

NextConfidence == Confidence

SpecConfidence == InitConfidence /\ [][NextConfidence]_vars

\* --------------------------------------------- properties of the confidence
\* A score is above a number of hundredths.
Above(x, hundredths) == x.num * 100 > hundredths * x.den

\* The largest score of the list is above a number of hundredths.
MaxAbove(hundredths) == \E i \in 1..Len(scores) : Above(scores[i], hundredths)

\* The mean of the list is above a number of hundredths.
MeanAbove(hundredths) ==
  RatSum(scores).num * 100 > hundredths * Len(scores) * RatSum(scores).den

\* The label the scores alone give.
LabelOfScores ==
  IF scores = <<>> THEN "low"
  ELSE IF MaxAbove(85) /\ MeanAbove(65) THEN "high"
  ELSE IF MaxAbove(60) /\ MeanAbove(40) THEN "medium"
  ELSE "low"

\* C16: the label _compute_confidence returns is high iff max > 0.85 and
\* mean > 0.65, otherwise medium iff max > 0.6 and mean > 0.4, otherwise low,
\* all comparisons strict; [0.9, 0.9] gives high, [0.7, 0.5] medium, [0.2]
\* low, and the empty list low with max_score = avg_score = 0.
C16_LabelFromScores ==
  pc = "computed" =>
    /\ confidence.label = LabelOfScores
    /\ scores = <<Rat(9, 10), Rat(9, 10)>> => confidence.label = "high"
    /\ scores = <<Rat(7, 10), Rat(1, 2)>> => confidence.label = "medium"
    /\ scores = <<Rat(1, 5)>> => confidence.label = "low"
    /\ scores = <<>> => /\ confidence.label = "low"
                        /\ confidence.max_score = Zero
                        /\ confidence.avg_score = Zero

\* A list whose largest score is the threshold 0.85 itself, and medium.
C16_Witness ==
  /\ pc = "computed"
  /\ scores = <<Rat(17, 20), Rat(7, 10)>>
  /\ confidence.label = "medium"

\* --------------------------------------------------------------- QAEngine
\* A chunk's meta is a record of its keys; a key that is absent, or None,
\* reads as None with meta.get, and a string is the sequence of its tokens.
Meta(document_name, title, source_name, source_path, page) ==
  [document_name |-> document_name, title |-> title, source_name |-> source_name,
   source_path |-> source_path, page |-> page]

\* x or y
OrElse(x, y) == IF Truthy(x) THEN x ELSE y

UnknownDoc == <<"unknown_doc">>

\* the key from document_name alone.
DocKeyNameOnly(meta) == OrElse(meta.document_name, Some(UnknownDoc))[1]

\* meta.get("document_name") or meta.get("title") or meta.get("source_name")
\* or "unknown_doc"
DocKey(meta) ==
  OrElse(meta.document_name,
         OrElse(meta.title, OrElse(meta.source_name, Some(UnknownDoc))))[1]

\* The chunk_info built for one retrieved result.
ChunkInfo(r) ==
  LET meta == r.metadata.metadata
  IN  [text |-> r.metadata.text,
       score |-> r.score,
       page |-> meta.page,
       source_name |-> meta.source_name,
       document_name |-> OrElse(meta.document_name, OrElse(meta.title, meta.source_name)),
       source_path |-> meta.source_path]

\* The position of a key in a dict kept in insertion order, 0 if absent.
KeyIndex(dict, key) ==
  IF \E i \in 1..Len(dict) : dict[i].key = key
    THEN CHOOSE i \in 1..Len(dict) : dict[i].key = key
    ELSE 0

\* grouped[doc_id] = [chunk_info]
GroupReplace(dict, key, info) ==
  IF KeyIndex(dict, key) = 0
    THEN Append(dict, [key |-> key, chunks |-> <<info>>])
    ELSE [dict EXCEPT ![KeyIndex(dict, key)].chunks = <<info>>]

\* grouped.setdefault(doc_id, []).append(chunk_info)
GroupAppend(dict, key, info) ==
  IF KeyIndex(dict, key) = 0
    THEN Append(dict, [key |-> key, chunks |-> <<info>>])
    ELSE [dict EXCEPT ![KeyIndex(dict, key)].chunks = Append(@, info)]

\* The two statements on sources[doc_id] of one pass of the loop.
SourceUpdate(dict, key, info) ==
  LET with == IF KeyIndex(dict, key) = 0
                THEN Append(dict, [key |-> key,
                                   document_name |-> OrElse(info.document_name, Some(key))[1],
                                   source_name |-> info.source_name,
                                   source_path |-> info.source_path,
                                   pages |-> {}])
                ELSE dict
  IN  IF info.page # None
        THEN [with EXCEPT ![KeyIndex(with, key)].pages = @ \cup {info.page[1]}]
        ELSE with

\* the pages from the highest down.
RECURSIVE SortedDescending(_)
SortedDescending(S) ==
  IF S = {} THEN <<>>
  ELSE LET most == CHOOSE x \in S : \A y \in S : y <= x
       IN  <<most>> \o SortedDescending(S \ {most})

\* sorted(src["pages"]) if src["pages"] else []
RECURSIVE SortedList(_)
SortedList(S) ==
  IF S = {} THEN <<>>
  ELSE LET least == CHOOSE x \in S : \A y \in S : x <= y
       IN  <<least>> \o SortedList(S \ {least})

\* The loop of _group_retrieved_by_document over what is left of retrieved.
RECURSIVE GroupLoop(_, _, _)
GroupLoop(rest, gr, src) ==
  IF rest = <<>> THEN [grouped |-> gr, sources |-> src]
  ELSE LET info == ChunkInfo(rest[1])
           key == DocKey(rest[1].metadata.metadata)
       IN  GroupLoop(Tail(rest), GroupAppend(gr, key, info), SourceUpdate(src, key, info))

\* _group_retrieved_by_document(retrieved)
GroupRetrievedByDocument(retrieved) ==
  LET looped == GroupLoop(retrieved, <<>>, <<>>)
  IN  [grouped |-> looped.grouped,
       sources |-> [i \in 1..Len(looped.sources) |->
                      [looped.sources[i] EXCEPT !.pages = SortedList(@)]]]

\* [c for chunks in grouped_chunks.values() for c in chunks]
RECURSIVE AllChunks(_)
AllChunks(gr) == IF gr = <<>> THEN <<>> ELSE gr[1].chunks \o AllChunks(Tail(gr))

ScoresOf(cs) == [i \in 1..Len(cs) |-> cs[i].score]
TextsOf(cs) == [i \in 1..Len(cs) |-> cs[i].text]

Keywords ==
  { <<"t", "h", "e", "s", "e", " ", "p", "a", "p", "e", "r", "s">>,
    <<"a", "l", "l", " ", "p", "a", "p", "e", "r", "s">>,
    <<"c", "o", "m", "b", "i", "n", "e", "d">>,
    <<"t", "o", "g", "e", "t", "h", "e", "r">> }

\* keyword in s
Contains(s, sub) == Find(s, sub, 0) # -1

\* any(keyword in query for keyword in [...]), the query as it was typed.
IsCombinedAsTyped(q) == \E keyword \in Keywords : Contains(q, keyword)

\* any(keyword in query.lower() for keyword in [...])
IsCombined(q) == \E keyword \in Keywords : Contains(Lower(q), keyword)

\* The prompt of the combined mode, and of one document.
CombinedPrompt(gr, q) ==
  [about |-> "multiple documents",
   context |-> Join(<<LF, LF>>, TextsOf(AllChunks(gr))),
   question |-> q]
DocPrompt(cs, q) ==
  [about |-> "a single document",
   context |-> Join(<<LF, LF>>, TextsOf(cs)),
   question |-> q]

\* What generate_text returns for a prompt when it returns.
GenerateText(prompt) == [answer_to |-> prompt]

NoContentMessage ==
  "I could not find any relevant content in the ingested documents for this question."

\* The dict ask returns when nothing was retrieved.
NoneResponse ==
  [mode |-> "none",
   answer |-> Some(NoContentMessage),
   answers |-> <<>>,
   sources |-> <<>>,
   confidence |-> [label |-> "low", max_score |-> Zero, avg_score |-> Zero,
                   explanation |-> NoChunksExplanation]]

\* list(source_meta.values())
SourceValues(src) ==
  [i \in 1..Len(src) |->
     [document_name |-> src[i].document_name, source_name |-> src[i].source_name,
      source_path |-> src[i].source_path, pages |-> src[i].pages]]

\* a test that never finds the list empty.
NeverEmpty(retrieved) == FALSE

\* not retrieved
NotRetrieved(retrieved) == Len(retrieved) = 0

\* the loop over the groups, left after the first.
FirstGroupPending(done, gr) == Len(done) < Min(1, Len(gr))

\* The per-document loop has a group left to answer.
GroupPending(done, gr) == Len(done) < Len(gr)

\* ------------------------------------------------ one engine, one store
\* Most chunks in the store, and most chunks in one call of add_documents.
MaxIndexed == 3
MaxBatch == 2

\* Chunks as they may be handed to add_documents: two of a.pdf, titled
\* Report; one of b.pdf, another file with that title; one with a title and
\* no document_name; one with an empty document_name and a source_name; one
\* with no name at all.
Named(document_name, source_name, page) ==
  Meta(Some(<<document_name>>), Some(<<document_name>>), Some(<<source_name>>),
       Some(<<"/docs/", source_name>>), page)
ChunkPool ==
  { [id |-> <<"chunk_0">>, text |-> <<"a1">>, meta |-> Named("Report", "a.pdf", Some(1))],
    [id |-> <<"chunk_1">>, text |-> <<"a2">>, meta |-> Named("Report", "a.pdf", Some(2))],
    [id |-> <<"chunk_0">>, text |-> <<"b1">>, meta |-> Named("Report", "b.pdf", Some(1))],
    [id |-> <<"chunk_0">>, text |-> <<"n1">>,
     meta |-> Meta(None, Some(<<"Notes">>), Some(<<"n.docx">>), Some(<<"/docs/", "n.docx">>), None)],
    [id |-> <<"chunk_0">>, text |-> <<"s1">>,
     meta |-> Meta(Some(<<>>), None, Some(<<"s.html">>), Some(<<"/docs/", "s.html">>), None)],
    [id |-> <<"chunk_0">>, text |-> <<"u1">>, meta |-> Meta(None, Some(<<>>), None, None, None)] }

\* What the embedding provider returns for the texts of the pool
EmbeddingOf(txt) ==
  CASE txt = <<"a1">> -> <<3, 4>>
    [] txt = <<"a2">> -> <<6, 8>>
    [] txt = <<"b1">> -> <<4, 3>>
    [] txt = <<"n1">> -> <<-4, 3>>
    [] txt = <<"s1">> -> <<3, 4>>
    [] OTHER -> <<0, 0>>

\* and for the queries.
Queries ==
  { <<"w", "h", "y">>,
    <<"C", "o", "m", "b", "i", "n", "e", "d">>,
    <<"A", "L", "L", " ", "p", "a", "p", "e", "r", "s">>,
    <<"a", "l", "t", "o", "g", "e", "t", "h", "e", "r">>,
    <<"t", "h", "e", "s", "e", " ", "p", "a", "p", "e", "r">> }
QueryEmbedding(q) == IF Len(q) = 3 THEN <<4, 3>> ELSE <<3, 4>>

AskTopKs == {0, 1, MaxIndexed}

InitAsk ==
  /\ pc = "serve"
  /\ full_text = <<>>
  /\ IdleChunk
  /\ IdlePage
  /\ IdleIngest
  /\ IdleQA

\* texts = [c["text"] for c in chunks]
BatchTexts(cs) == [i \in 1..Len(cs) |-> cs[i].text]

\* get_embeddings(text_list) of either provider: the embedding of each text,
\* in the order of the texts.
GetEmbeddings(text_list) == [i \in 1..Len(text_list) |-> EmbeddingOf(text_list[i])]

\* a zip that leaves the last pair out.
ZipButLast(a, b) == [i \in 1..(Min(Len(a), Len(b)) - 1) |-> <<a[i], b[i]>>]

\* zip(a, b)
Zip(a, b) == [i \in 1..Min(Len(a), Len(b)) |-> <<a[i], b[i]>>]

\* chunks added one by one as they are embedded, up to the failure.
PairsUpToFailure(cs, embeddings) ==
  IF embeddings.raised
    THEN [i \in 1..(Len(cs) - 1) |-> <<cs[i], EmbeddingOf(cs[i].text)>>]
    ELSE [i \in 1..Min(Len(cs), Len(embeddings.value)) |->
            <<cs[i], embeddings.value[i]>>]

\* The (chunk, vector) pairs the loop of add_documents runs over: none when
\* get_embeddings raised, for the call precedes the loop.
PairsToAdd(cs, embeddings) ==
  IF embeddings.raised THEN <<>> ELSE Zip(cs, embeddings.value)

\* The body of add_documents(chunks), embeddings being what get_embeddings
\* gave or that it raised: one call of get_embeddings on all the texts, then
\* one add for each pair.
AddDocumentsCall(cs, embeddings) ==
  LET pairs == PairsToAdd(cs, embeddings)
      payload == [i \in 1..Len(pairs) |->
                    [text |-> pairs[i][1].text, metadata |-> pairs[i][1].meta]]
  IN  /\ batch' = cs
      /\ embedded' = <<BatchTexts(cs)>>
      /\ vectors' = vectors \o [i \in 1..Len(pairs) |-> Normalized(pairs[i][2])]
      /\ metadatas' = metadatas \o payload
      /\ ids' = ids \o [i \in 1..Len(pairs) |->
                          StoreId(Some(pairs[i][1].id), Len(ids) + i - 1)]
      /\ added' = added \o [i \in 1..Len(pairs) |->
                              [vec |-> pairs[i][2], metadata |-> payload[i],
                               id |-> Some(pairs[i][1].id)]]
      /\ response' = IF embeddings.raised THEN Raised ELSE Returned(None)
      /\ pc' = "added"

\* add_documents(chunks): every chunk is embedded and added.
AddDocuments ==
  /\ pc = "serve"
  /\ \E cs \in SeqsUpTo(ChunkPool, MaxBatch) :
       /\ Len(vectors) + Len(cs) <= MaxIndexed
       /\ AddDocumentsCall(cs, Returned(GetEmbeddings(BatchTexts(cs))))
  /\ UNCHANGED <<full_text, chunkVars, pageVars, ingestVars, searchVars, serveVars,
                 query, scores, grouped, sources, confidence, mode, answers, prompts>>

\* add_documents(chunks) when get_embeddings raises.
AddDocumentsFails ==
  /\ pc = "serve"
  /\ \E cs \in SeqsUpTo(ChunkPool, MaxBatch) :
       /\ Len(vectors) + Len(cs) <= MaxIndexed
       /\ AddDocumentsCall(cs, Raised)
  /\ UNCHANGED <<full_text, chunkVars, pageVars, ingestVars, searchVars, serveVars,
                 query, scores, grouped, sources, confidence, mode, answers, prompts>>

\* The caller of add_documents goes on.
AddDone ==
  /\ pc = "added"
  /\ pc' = "serve"
  /\ batch' = <<>>
  /\ embedded' = <<>>
  /\ response' = Returned(None)
  /\ UNCHANGED <<full_text, chunkVars, pageVars, ingestVars, storeVars, searchVars, serveVars,
                 query, scores, grouped, sources, confidence, mode, answers, prompts>>

\* ask(query, top_k) up to its choice of mode: the query is embedded, the
\* store searched, and either the fallback is returned or the results are
\* grouped and scored.
AskStart ==
  /\ pc = "serve"
  /\ \E q \in Queries, k \in AskTopKs :
       /\ query' = q
       /\ top_k' = k
       /\ query_vec' = QueryEmbedding(q)
       /\ results' \in SimilaritySearch(vectors, metadatas, ids, QueryEmbedding(q), k)
  /\ prompts' = <<>>
  /\ answers' = <<>>
  /\ IF results'.raised
       THEN /\ pc' = "asked"
            /\ response' = Raised
            /\ UNCHANGED <<scores, grouped, sources, confidence, mode>>
       ELSE IF NotRetrieved(results'.value)
         THEN /\ pc' = "asked"
              /\ response' = Returned(NoneResponse)
              /\ UNCHANGED <<scores, grouped, sources, confidence, mode>>
         ELSE /\ pc' = "generate"
              /\ grouped' = GroupRetrievedByDocument(results'.value).grouped
              /\ sources' = GroupRetrievedByDocument(results'.value).sources
              /\ scores' = ScoresOf(AllChunks(grouped'))
              /\ confidence' = ComputeConfidence(scores')
              /\ mode' = IF IsCombined(query') THEN "combined" ELSE "per_document"
              /\ UNCHANGED response
  /\ UNCHANGED <<full_text, addVars, serveVars, chunkVars, pageVars, ingestVars, storeVars>>

\* The prompt of the next call of generate_text.
NextPrompt ==
  IF mode = "combined" THEN CombinedPrompt(grouped, query)
  ELSE DocPrompt(grouped[Len(answers) + 1].chunks, query)

\* ask is about to call generate_text.
Generating ==
  /\ pc = "generate"
  /\ mode = "combined" \/ GroupPending(answers, grouped)

\* generate_text returns: in combined mode ask returns with the answer, in
\* per-document mode the answer is stored under the group's key.
AskGenerate ==
  /\ Generating
  /\ prompts' = Append(prompts, NextPrompt)
  /\ IF mode = "combined"
       THEN /\ pc' = "asked"
            /\ response' = Returned([mode |-> "combined",
                                     answer |-> Some(GenerateText(NextPrompt)),
                                     answers |-> <<>>,
                                     sources |-> SourceValues(sources),
                                     confidence |-> confidence])
            /\ UNCHANGED answers
       ELSE /\ answers' = Append(answers, [key |-> grouped[Len(answers) + 1].key,
                                           answer |-> GenerateText(NextPrompt)])
            /\ UNCHANGED <<pc, response>>
  /\ UNCHANGED <<full_text, addVars, serveVars, chunkVars, pageVars, ingestVars,
                 storeVars, searchVars,
                 query, scores, grouped, sources, confidence, mode>>

\* the failure caught, and the answers so far returned.
AnswersSoFar(done) ==
  Returned([mode |-> "per_document", answer |-> None, answers |-> done,
            sources |-> <<>>, confidence |-> NoConfidence])

\* What ask leaves its caller with when generate_text raises: nothing in ask
\* catches the exception, whatever answers it holds by then.
Uncaught(done) == Raised

\* generate_text raises, and ask with it.
AskGenerateFails ==
  /\ Generating
  /\ prompts' = Append(prompts, NextPrompt)
  /\ pc' = "asked"
  /\ response' = Uncaught(answers)
  /\ UNCHANGED <<full_text, addVars, serveVars, chunkVars, pageVars, ingestVars,
                 storeVars, searchVars,
                 query, scores, grouped, sources, confidence, mode, answers>>

\* The per-document loop is over and ask returns.
AskReturn ==
  /\ pc = "generate"
  /\ mode = "per_document"
  /\ ~GroupPending(answers, grouped)
  /\ pc' = "asked"
  /\ response' = Returned([mode |-> "per_document",
                           answer |-> None,
                           answers |-> answers,
                           sources |-> SourceValues(sources),
                           confidence |-> confidence])
  /\ UNCHANGED <<full_text, addVars, serveVars, chunkVars, pageVars, ingestVars,
                 storeVars, searchVars,
                 query, scores, grouped, sources, confidence, mode, answers, prompts>>

\* The caller has taken the outcome; the engine waits for the next call.
AskDone ==
  /\ pc = "asked"
  /\ pc' = "serve"
  /\ query_vec' = <<>>
  /\ top_k' = 0
  /\ results' = Returned(<<>>)
  /\ query' = <<>>
  /\ scores' = <<>>
  /\ grouped' = <<>>
  /\ sources' = <<>>
  /\ confidence' = NoConfidence
  /\ mode' = "none"
  /\ answers' = <<>>
  /\ prompts' = <<>>
  /\ response' = Returned(None)
  /\ UNCHANGED <<full_text, addVars, serveVars, chunkVars, pageVars, ingestVars, storeVars>>

NextAsk ==
  \/ AddDocuments \/ AddDocumentsFails \/ AddDone
  \/ AskStart \/ AskGenerate \/ AskGenerateFails \/ AskReturn \/ AskDone

SpecAsk == InitAsk /\ [][NextAsk]_vars

\* -------------------------------------------------------- properties of ask
\* ask has retrieved something and chosen its mode.
Retrieved == pc \in {"generate", "asked"} /\ ~results.raised /\ results.value # <<>>

\* ask has returned a dict.
AskReturned == pc = "asked" /\ ~response.raised

\* C15: when the retrieval of a request returns no results, because the
\* store is empty or top_k is 0, ask returns mode none with the explanatory
\* answer message, no sources and the confidence low with max_score 0 and
\* avg_score 0, and generate_text is not called in that request.
C15_NoResultsFallback ==
  (pc = "asked" /\ ~results.raised /\ results.value = <<>>)
  => /\ ~response.raised
     /\ response.value.mode = "none"
     /\ response.value.answer = Some(NoContentMessage)
     /\ response.value.sources = <<>>
     /\ response.value.confidence.label = "low"
     /\ response.value.confidence.max_score = Zero
     /\ response.value.confidence.avg_score = Zero
     /\ prompts = <<>>

\* top_k = 0 on a full store, asked with a query of the combined mode.
C15_Witness ==
  /\ pc = "asked"
  /\ Len(vectors) = MaxIndexed
  /\ top_k = 0
  /\ results = Returned(<<>>)
  /\ IsCombined(query)

\* The queries in lower case.
Lowered == [q \in Queries |-> Lower(q)]

\* One of the four substrings occurs in the lower-cased query.
HasKeyword ==
  \E keyword \in Keywords :
    \E p \in 0..Len(query) : OccursAt(Lowered[query], keyword, p)

\* C17: given a retrieval that is not empty, ask chooses the combined mode
\* exactly when the lower-cased query contains one of "these papers",
\* "all papers", "combined", "together", and the per_document mode
\* otherwise; a dict it returns carries that mode.
C17_ModeByKeyword ==
  Retrieved
  => /\ mode = (IF HasKeyword THEN "combined" ELSE "per_document")
     /\ AskReturned => response.value.mode = mode

\* A query that holds a keyword only once it is lower-cased, answered.
C17_Witness ==
  /\ Retrieved
  /\ AskReturned
  /\ HasKeyword
  /\ ~IsCombinedAsTyped(query)
  /\ response.value.mode = "combined"

\* C18: a request that ask answers has called generate_text exactly once
\* in combined mode, and in per_document mode exactly once per document
\* group, in the groups' order and each time with that group's prompt, so
\* that the keys of the returned answers are exactly the keys of the groups.
C18_OneCallPerGroup ==
  (Retrieved /\ AskReturned)
  => IF mode = "combined"
       THEN prompts = <<CombinedPrompt(grouped, query)>>
       ELSE /\ Len(prompts) = Len(grouped)
            /\ Len(response.value.answers) = Len(grouped)
            /\ \A i \in 1..Len(grouped) :
                 /\ prompts[i] = DocPrompt(grouped[i].chunks, query)
                 /\ response.value.answers[i].key = grouped[i].key
                 /\ response.value.answers[i].answer = GenerateText(prompts[i])
            /\ \A i, j \in 1..Len(grouped) : i # j => grouped[i].key # grouped[j].key

\* A per-document answer over three groups.
C18_Witness ==
  /\ Retrieved
  /\ AskReturned
  /\ mode = "per_document"
  /\ Len(grouped) = MaxIndexed

\* C19: in per_document mode no document group, and so no per-document
\* prompt, holds chunks of two different source files (different
\* source_path).
C19_GroupsAreSingleSource ==
  (Retrieved /\ mode = "per_document")
  => \A g \in 1..Len(grouped) :
       \A i, j \in 1..Len(grouped[g].chunks) :
         grouped[g].chunks[i].source_path = grouped[g].chunks[j].source_path

\* A value of meta is present and not empty.
Present(opt) == opt # None /\ opt # Some(<<>>)

\* The key the fallback chain gives a meta.
ChainKey(meta) ==
  IF Present(meta.document_name) THEN meta.document_name[1]
  ELSE IF Present(meta.title) THEN meta.title[1]
  ELSE IF Present(meta.source_name) THEN meta.source_name[1]
  ELSE <<"unknown_doc">>

\* C20: every retrieved result is put in the group whose key is the first
\* present and non-empty value of document_name, title, source_name of its
\* meta, or "unknown_doc" when there is none.
C20_KeyByFallbackChain ==
  Retrieved
  => \A i \in 1..Len(results.value) :
       \E g \in 1..Len(grouped) :
         /\ grouped[g].key = ChainKey(results.value[i].metadata.metadata)
         /\ \E c \in 1..Len(grouped[g].chunks) :
              /\ grouped[g].chunks[c].text = results.value[i].metadata.text
              /\ grouped[g].chunks[c].score = results.value[i].score
              /\ \A h \in 1..Len(grouped) :
                   grouped[h].key # grouped[g].key =>
                     \A d \in 1..Len(grouped[h].chunks) :
                       grouped[h].chunks[d].text # results.value[i].metadata.text

\* Results keyed by a title, by a source_name and by the literal.
C20_Witness ==
  /\ Retrieved
  /\ \E g \in 1..Len(grouped) : grouped[g].key = <<"Notes">>
  /\ \E g \in 1..Len(grouped) : grouped[g].key = <<"s.html">>
  /\ \E g \in 1..Len(grouped) : grouped[g].key = <<"unknown_doc">>

\* The pages, None left out, of the chunks grouped under a key.
PagesUnder(key) ==
  UNION { {grouped[g].chunks[c].page[1] : c \in {d \in 1..Len(grouped[g].chunks) :
                                                   grouped[g].chunks[d].page # None}}
          : g \in {h \in 1..Len(grouped) : grouped[h].key = key} }

\* A list holds the members of a set once each, in ascending order.
AscendingListOf(lst, S) ==
  /\ Len(lst) = Cardinality(S)
  /\ {lst[i] : i \in 1..Len(lst)} = S
  /\ \A i \in 1..(Len(lst) - 1) : lst[i] < lst[i + 1]

\* C21: for every document key of the sources, the pages list holds exactly
\* the distinct pages, None left out, of the retrieved chunks grouped under
\* that key, each once and in ascending order (empty when no chunk of the
\* document has a page); the returned sources carry these lists.
C21_PagesSortedDistinct ==
  Retrieved
  => /\ \A i \in 1..Len(sources) :
          AscendingListOf(sources[i].pages, PagesUnder(sources[i].key))
     /\ AskReturned =>
          /\ Len(response.value.sources) = Len(sources)
          /\ \A i \in 1..Len(sources) :
               response.value.sources[i].pages = sources[i].pages

\* A returned group of three chunks, page 2 ranked before page 1 and a page
\* seen twice, next to a document without pages.
C21_Witness ==
  /\ Retrieved
  /\ AskReturned
  /\ \E g \in 1..Len(grouped) :
       /\ Len(grouped[g].chunks) = 3
       /\ grouped[g].chunks[1].page = Some(2)
       /\ grouped[g].chunks[2].page = Some(1)
       /\ grouped[g].chunks[3].page = Some(1)
       /\ sources[g].pages = <<1, 2>>

\* C22: when a call of generate_text fails, in per_document mode also the
\* call for the second or a later document, ask raises to its caller and the
\* store is as it was; what a raising ask leaves is no dict, and a dict that
\* ask returns in per_document mode has an answer for every group.
C22_GenerationFailurePropagates ==
  /\ [][AskGenerateFails =>
          /\ response'.raised
          /\ response'.value = None
          /\ UNCHANGED <<vectors, metadatas, ids>>]_vars
  /\ []((Retrieved /\ AskReturned /\ mode = "per_document")
          => Len(response.value.answers) = Len(grouped))

\* The call for the second document has failed after the first was answered.
C22_Witness ==
  /\ pc = "asked"
  /\ response = Raised
  /\ mode = "per_document"
  /\ Len(answers) = 1
  /\ Len(prompts) = 2
  /\ Len(vectors) > 0

\* --------------------------------------------- properties of the batch
\* A file extract_document can hand to an extractor that can read it.
Usable(path) ==
  /\ Disk(path).exists
  /\ Disk(path).readable
  /\ LowerExt(path.ext) \in {".pdf", ".docx", ".html", ".htm"}

\* C23: extract_documents never raises; a file whose extraction or chunking
\* fails contributes no chunk, and the returned list is the chunks of the
\* files that succeeded, file after file in the order of the paths.
C23_BatchIsolatesFailures ==
  /\ pc # "raised"
  /\ \A k \in 1..Len(all_chunks) : Usable(all_chunks[k].meta.source_path)
  /\ Len(docs) + Len(skipped) = next_file - 1
  /\ pc = "ingested" =>
       all_chunks = Concat([i \in 1..Len(file_paths) |->
                            IF Usable(file_paths[i])
                              THEN TryBlocks[file_paths[i]].chunks
                              ELSE <<>>])

\* A batch of a missing file and, after it, a readable one.
C23_Witness ==
  /\ pc = "ingested"
  /\ Len(file_paths) = 2
  /\ ~Disk(file_paths[1]).exists
  /\ Usable(file_paths[2])
  /\ all_chunks # <<>>

\* C24: a path whose extension is not .pdf, .docx, .html or .htm fails with
\* the unsupported-format error (ValueError), also when it does not exist,
\* and a missing path with one of these extensions fails with
\* FileNotFoundError; no such path reaches an extractor.
C24_UnsupportedBeforeMissing ==
  \A i \in 1..Len(skipped) :
    IF LowerExt(skipped[i].path.ext) \notin {".pdf", ".docx", ".html", ".htm"}
      THEN skipped[i].error = "ValueError"
      ELSE ~Disk(skipped[i].path).exists => skipped[i].error = "FileNotFoundError"

\* The stripped lines, ten at most, of a Document's text.
FirstLines(doc) ==
  [i \in 1..Len(SplitLines(Strip(doc.full_text), 10)) |->
     Strip(SplitLines(Strip(doc.full_text), 10)[i])]

\* A Document without a metadata title whose first content line is [PAGE 1].
UntitledFromPageOne(doc) ==
  /\ Strip(Disk(doc.path).title) = <<>>
  /\ doc.full_text # <<>>
  /\ FirstLines(doc)[1] = PageMarker(1)

\* A line that may be taken for the title: longer than 3 characters and no
\* page marker. (The texts on the disk hold no page, chapter or section
\* heading and no line of 200 characters.)
Eligible(line) == Len(line) > 3 /\ line[1] # "["

\* C25 as stated: the title of a document with no metadata title whose
\* first content line is "[PAGE 1]" is the filename without extension.
C25_FilenameAfterMarker ==
  \A i \in 1..Len(docs) :
    UntitledFromPageOne(docs[i]) => docs[i].title = <<docs[i].path.stem>>

\* C25: the title of a document with no metadata title whose first content
\* line is "[PAGE 1]" is never a page marker line: it is the first of the
\* first 10 lines that may be taken for a title, and the filename without
\* extension when there is no such line.
C25_NeverTheMarkerLine ==
  \A i \in 1..Len(docs) :
    UntitledFromPageOne(docs[i]) =>
      /\ docs[i].title # PageMarker(1)
      /\ ~MatchesPageMarker(docs[i].title)
      /\ LET lines == FirstLines(docs[i])
             eligible == {k \in 1..Len(lines) : Eligible(lines[k])}
         IN  IF eligible = {} THEN docs[i].title = <<docs[i].path.stem>>
             ELSE \E k \in eligible :
                    /\ docs[i].title = lines[k]
                    /\ \A j \in eligible : k <= j

\* A batch of a PDF whose page text gives the title and one that falls
\* through to its filename.
C25_Witness ==
  /\ Len(docs) = 2
  /\ UntitledFromPageOne(docs[1])
  /\ docs[1].title = <<"I", "n", "t", "r", "o">>
  /\ UntitledFromPageOne(docs[2])
  /\ docs[2].title = <<"short">>

\* ------------------------------------------------- the server of main.py
\* The keys of llm_instances.
Providers == {"groq", "gemini"}

\* The values of the model form field: the two providers and another word.
Models == Providers \cup {"other"}

\* The most generate_text calls of one ask: none when nothing is retrieved,
\* one per prompt otherwise.
MaxGenerate == 2

\* a handler that awaited each of its generate_text calls.
AwaitsGenerate(step) == step = "generating"

\* Whether a handler gives the event loop up after a step: ask_question and
\* arxiv_search are coroutines without an await, each runs from its first
\* statement to its return.
Awaits(step) == FALSE

\* The request whose handler goes on: the one that holds the event loop, or,
\* the loop being free, any that gave it up at an await.
Resumes(r) ==
  \/ running = r
  \/ running = 0 /\ requests[r].step \in {"generating", "searching"}

\* Who holds the event loop once request r has done a step.
LoopAfter(r, step) == IF Awaits(step) THEN 0 ELSE r

InitServe ==
  /\ pc = "http"
  /\ full_text = <<>>
  /\ IdleChunk
  /\ IdlePage
  /\ IdleIngest
  /\ IdleQA

\* A client posts /ask or /arxiv_search; g is the number of prompts the ask
\* of this request will have.
Arrive(r) ==
  /\ pc = "http"
  /\ requests[r].step = "none"
  /\ \E kind \in {"ask", "arxiv"}, model \in Models, g \in 0..MaxGenerate :
       /\ kind = "arxiv" => g = 0
       /\ requests' = [requests EXCEPT ![r] =
                         [kind |-> kind, model |-> model, step |-> "pending", left |-> g]]
  /\ UNCHANGED <<pc, full_text, chunkVars, pageVars, ingestVars, storeVars, searchVars,
                 askVars, addVars, llm, running, calls>>

\* The event loop starts the handler of a request: the 400 response for a
\* model that is no key of llm_instances, else qa_engine.llm is switched.
Start(r) ==
  /\ pc = "http"
  /\ running = 0
  /\ requests[r].step = "pending"
  /\ IF requests[r].model \notin Providers
       THEN /\ requests' = [requests EXCEPT ![r].step = "done"]
            /\ UNCHANGED <<llm, running>>
       ELSE LET step == IF requests[r].kind = "ask" THEN "generating" ELSE "searching"
            IN  /\ llm' = requests[r].model
                /\ requests' = [requests EXCEPT ![r].step = step]
                /\ running' = LoopAfter(r, step)
  /\ UNCHANGED <<pc, full_text, chunkVars, pageVars, ingestVars, storeVars, searchVars,
                 askVars, addVars, calls>>

\* qa_engine.ask calls self.llm.generate_text for its next prompt.
Generate(r) ==
  /\ pc = "http"
  /\ Resumes(r)
  /\ requests[r].step = "generating"
  /\ requests[r].left > 0
  /\ calls' = calls \cup {[request |-> r, model |-> requests[r].model, provider |-> llm]}
  /\ requests' = [requests EXCEPT ![r].left = @ - 1]
  /\ running' = LoopAfter(r, "generating")
  /\ UNCHANGED <<pc, full_text, chunkVars, pageVars, ingestVars, storeVars, searchVars,
                 askVars, addVars, llm>>

\* The handler returns its response.
Respond(r) ==
  /\ pc = "http"
  /\ Resumes(r)
  /\ \/ requests[r].step = "generating" /\ requests[r].left = 0
     \/ requests[r].step = "searching"
  /\ requests' = [requests EXCEPT ![r].step = "done"]
  /\ running' = 0
  /\ UNCHANGED <<pc, full_text, chunkVars, pageVars, ingestVars, storeVars, searchVars,
                 askVars, addVars, llm, calls>>

\* The response has been sent: the request and its calls are forgotten.
Forget(r) ==
  /\ pc = "http"
  /\ requests[r].step = "done"
  /\ requests' = [requests EXCEPT ![r] = NoRequest]
  /\ calls' = {c \in calls : c.request # r}
  /\ UNCHANGED <<pc, full_text, chunkVars, pageVars, ingestVars, storeVars, searchVars,
                 askVars, addVars, llm, running>>

NextServe ==
  \E r \in 1..MaxRequests : Arrive(r) \/ Start(r) \/ Generate(r) \/ Respond(r) \/ Forget(r)

SpecServe == InitServe /\ [][NextServe]_vars

\* C27: model selection is per request. Whatever the order in which the
\* concurrent /ask and /arxiv_search requests are served on the shared
\* QAEngine, every generate_text call made for an /ask request goes to the
\* provider its own model field names.
C27_OwnModelServesEachAsk ==
  \A c \in calls :
    /\ requests[c.request].kind = "ask"
    /\ c.provider = c.model
    /\ c.model = requests[c.request].model

\* An /ask for groq is being served: it has switched the engine from gemini
\* to groq and called generate_text, while a request for gemini waits.
C27_Witness ==
  \E r, q \in 1..MaxRequests :
    /\ r # q
    /\ running = r
    /\ requests[r].kind = "ask"
    /\ requests[r].model = "groq"
    /\ \E c \in calls : c.request = r /\ c.provider = "groq"
    /\ requests[q].step = "pending"
    /\ requests[q].model = "gemini"
    /\ llm = "groq"

\* --------------------------------------------- properties of add_documents
\* C26: add_documents(chunks) calls get_embeddings once, with the texts of
\* all the chunks, and then adds one record for each chunk: the index grows
\* by len(chunks), what it held stays, and the i-th new record has the id of
\* the i-th chunk and the payload {text, metadata} made of its text and meta.
C26_OneCallThenOneRecordEach ==
  [][AddDocuments =>
       /\ embedded' = <<[i \in 1..Len(batch') |-> batch'[i].text]>>
       /\ Len(vectors') = Len(vectors) + Len(batch')
       /\ Len(metadatas') = Len(metadatas) + Len(batch')
       /\ Len(ids') = Len(ids) + Len(batch')
       /\ SubSeq(vectors', 1, Len(vectors)) = vectors
       /\ SubSeq(metadatas', 1, Len(metadatas)) = metadatas
       /\ SubSeq(ids', 1, Len(ids)) = ids
       /\ \A i \in 1..Len(batch') :
            /\ ids'[Len(ids) + i] = batch'[i].id
            /\ metadatas'[Len(metadatas) + i] =
                 [text |-> batch'[i].text, metadata |-> batch'[i].meta]]_vars

\* Two chunks have been added to an index that held one.
C26_Witness ==
  /\ pc = "added"
  /\ ~response.raised
  /\ Len(batch) = 2
  /\ Len(embedded) = 1
  /\ Len(ids) = 3
  /\ ids[3] = batch[2].id

\* C30: when get_embeddings raises in add_documents the error reaches the
\* caller and the index is what it was before the call: no record of the
\* batch has been added.
C30_EmbeddingFailureAddsNothing ==
  [][AddDocumentsFails =>
       /\ response'.raised
       /\ vectors' = vectors
       /\ metadatas' = metadatas
       /\ ids' = ids
       /\ added' = added]_vars

\* get_embeddings has raised on a batch of two chunks, the index holding one.
C30_Witness ==
  /\ pc = "added"
  /\ response.raised
  /\ Len(batch) = 2
  /\ Len(embedded) = 1
  /\ Len(ids) = 1

\* ------------------------------------------------- properties of grouping
\* The retrieved results of one document key, in rank order, as chunk_infos.
RankedUnder(key) ==
  LET mine == SelectSeq(results.value, LAMBDA r : DocKey(r.metadata.metadata) = key)
  IN  [i \in 1..Len(mine) |-> ChunkInfo(mine[i])]

\* How often a value occurs in a sequence.
Occurrences(seq, v) == Cardinality({i \in 1..Len(seq) : seq[i] = v})

\* C28: grouping partitions the retrieval. The groups have distinct keys,
\* every result lies in the group of its key and in no other, a group holds
\* the results of its key in their retrieval rank order (none dropped, none
\* twice), the keys of the groups are the keys of the sources, and the scores
\* given to the confidence are the retrieved scores, each as often.
C28_GroupingPartitions ==
  Retrieved =>
    /\ \A g, h \in 1..Len(grouped) : grouped[g].key = grouped[h].key => g = h
    /\ \A i \in 1..Len(results.value) :
         \E g \in 1..Len(grouped) : grouped[g].key = DocKey(results.value[i].metadata.metadata)
    /\ \A g \in 1..Len(grouped) :
         /\ grouped[g].chunks # <<>>
         /\ grouped[g].chunks = RankedUnder(grouped[g].key)
    /\ {grouped[g].key : g \in 1..Len(grouped)} = {sources[k].key : k \in 1..Len(sources)}
    /\ Len(scores) = Len(results.value)
    /\ \A i \in 1..Len(results.value) :
         Occurrences(scores, results.value[i].score)
           = Occurrences([k \in 1..Len(results.value) |-> results.value[k].score],
                         results.value[i].score)

\* Three results in two groups, one of them of two chunks.
C28_Witness ==
  /\ Retrieved
  /\ Len(results.value) = 3
  /\ Len(grouped) = 2
  /\ \E g \in 1..Len(grouped) : Len(grouped[g].chunks) = 2

\* --------------------------------------------------- coverage of chunk_text
\* chunk_text has returned from a call with chunk_chars > overlap >= 0.
ChunkedWithProgress == pc \in {"return", "done"} /\ chunk_chars > overlap /\ overlap >= 0

\* The length of the text without its carriage returns.
StrippedLen == Len(RemoveCR(full_text))

\* The positions of the CR-stripped text that lie in a chunk.
Covered ==
  {p \in 0..(StrippedLen - 1) :
     \E i \in 1..Len(chunks) : chunks[i].meta.start <= p /\ p < chunks[i].meta.end}

\* Where the last chunk ends, 0 without a chunk.
LastEnd == IF chunks = <<>> THEN 0 ELSE chunks[Len(chunks)].meta.end

\* Nothing but a suffix of the text is outside the chunks.
OnlySuffixLost ==
  /\ LastEnd <= StrippedLen
  /\ Covered = 0..(LastEnd - 1)
  /\ chunks # <<>> => chunks[1].meta.start = 0

\* C29 as stated: after chunk_text with chunk_chars > overlap >= 0, when the
\* cap was not hit every position of the CR-stripped text lies in a chunk,
\* the first chunk starts at 0 and the last ends at len(text); at most a
\* suffix is lost, and only when the cap is hit.
C29_CoverageOfAnyText ==
  ChunkedWithProgress =>
    /\ OnlySuffixLost
    /\ Len(chunks) < max_chunks =>
         /\ Covered = 0..(StrippedLen - 1)
         /\ chunks # <<>> => LastEnd = StrippedLen

\* C29: after chunk_text on a text that is not blank, with
\* chunk_chars > overlap >= 0, when the cap was not hit every position of the
\* CR-stripped text lies in a chunk, the first chunk starts at 0 and the last
\* ends at len(text); at most a suffix is lost, and only when the cap is hit.
C29_CoverageOfNonBlankText ==
  (ChunkedWithProgress /\ ~IsBlank(full_text)) =>
    /\ OnlySuffixLost
    /\ Len(chunks) < max_chunks =>
         /\ chunks # <<>>
         /\ chunks[1].meta.start = 0
         /\ LastEnd = StrippedLen
         /\ Covered = 0..(StrippedLen - 1)

\* A text with a carriage return covered by two overlapping chunks, the cap
\* not hit.
C29_Witness ==
  /\ pc = "done"
  /\ chunk_chars > overlap
  /\ overlap > 0
  /\ \E i \in 1..Len(full_text) : full_text[i] = CR
  /\ ~IsBlank(full_text)
  /\ Len(chunks) = 2
  /\ Len(chunks) < max_chunks
  /\ LastEnd = StrippedLen
  /\ Covered = 0..(StrippedLen - 1)

====
